---- MODULE Spec2Model ----
(***************************************************************************)
(* Model of the sign-out control (src/components/auth/AuthButton.tsx) and  *)
(* of the confirmation modal it renders (the ConfirmationModal component   *)
(* listed in src/skills/openai-agents-typescript.md, lines 255-393).       *)
(*                                                                         *)
(* One action is one event-loop task: a user event, a change reported by   *)
(* the session provider, or the continuation of confirmSignOut after the   *)
(* awaited authClient.signOut() settles.  Each action contains the render  *)
(* and the effect flush that React performs for the state it sets.         *)
(***************************************************************************)
EXTENDS Integers, Sequences, FiniteSets, TLC

\* ------------------------------------------------------------------ bounds
MaxCalls == 2         \* authClient.signOut() invocations explored
MaxSignInNavs == 1    \* router.push('/sign-in') requests explored

\* --------------------------------------------------------------- constants
Sessions == {"present", "absent"}
Statuses == {"pending", "resolved", "rejected"}
HomePath == "/"
SignInPath == "/sign-in"

VARIABLES
    session,            \* data of authClient.useSession(): present or absent
    loading,            \* isPending of authClient.useSession()
    showSignOutConfirm, \* useState(false), AuthButton.tsx:13
    isSigningOut,       \* useState(false), AuthButton.tsx:14
    calls,              \* status of every authClient.signOut() invocation
    navLog,             \* router.push requests: [path, call]
    consoleErrors,      \* number of console.error diagnostics
    bodyOverflow,       \* document.body.style.overflow
    scrollWrites,       \* writes to body overflow made by the last step
    lastEvent,          \* the event handled by the last step
    emitted             \* callbacks the modal invoked in the last step

vars == <<session, loading, showSignOutConfirm, isSigningOut, calls, navLog,
          consoleErrors, bodyOverflow, scrollWrites, lastEvent, emitted>>

\* ------------------------------------------------ AuthButton render branches
\* The modal is in the tree only in the `if (session)` branch, which is
\* reached only when `loading` is false.
GateMounted(s, l) == (~l) /\ s = "present"

SignOutAffordance_NoSessionCheck(s, l) == ~l

SignOutAffordance(s, l) == (~l) /\ s = "present"

SignInAffordance_IgnoresLoading(s, l) == s = "absent"

SignInAffordance(s, l) == (~l) /\ s = "absent"

\* --------------------------------------------- ConfirmationModal: rendering
\* {isOpen && ( ... )}: the dialog and all four controls exist iff isOpen.
DialogRendered_Always(isOpen) == TRUE

DialogRendered(isOpen) == isOpen

\* ------------------------------------------ ConfirmationModal: the controls
\* Each operator gives the callbacks invoked when the user activates the
\* control under the given props.
BackdropCallbacks(isOpen, isLoading) ==
    IF DialogRendered(isOpen) THEN <<"onClose">> ELSE <<>>

CloseControlCallbacks(isOpen, isLoading) ==
    IF DialogRendered(isOpen) THEN <<"onClose">> ELSE <<>>

CancelCallbacks_Swapped(isOpen, isLoading) ==
    IF DialogRendered(isOpen) /\ ~isLoading THEN <<"onConfirm">> ELSE <<>>

CancelCallbacks_NoDisable(isOpen, isLoading) ==
    IF DialogRendered(isOpen) THEN <<"onClose">> ELSE <<>>

CancelCallbacks(isOpen, isLoading) ==
    IF DialogRendered(isOpen) /\ ~isLoading THEN <<"onClose">> ELSE <<>>

ConfirmCallbacks_NoDisable(isOpen, isLoading) ==
    IF DialogRendered(isOpen) THEN <<"onConfirm">> ELSE <<>>

ConfirmCallbacks(isOpen, isLoading) ==
    IF DialogRendered(isOpen) /\ ~isLoading THEN <<"onConfirm">> ELSE <<>>

\* --------------------------------------- ConfirmationModal: the scroll lock
\* useEffect(() => { overflow = isOpen ? 'hidden' : 'unset';
\*                   return () => { overflow = 'unset' } }, [isOpen])
\* The writes React performs when the modal goes from (mounted, isOpen) =
\* (m0, o0) to (m1, o1): cleanup of the previous effect, then the new effect.
EffectBody(isOpen) == IF isOpen THEN <<"hidden">> ELSE <<"unset">>

EffectCleanup == <<"unset">>

EffectWrites_NoUnmountCleanup(m0, o0, m1, o1) ==
    IF ~m1 THEN <<>>
    ELSE IF ~m0 THEN EffectBody(o1)
    ELSE IF o0 # o1 THEN EffectCleanup \o EffectBody(o1)
    ELSE <<>>

EffectWrites_NoDeps(m0, o0, m1, o1) ==
    IF ~m1 THEN (IF m0 THEN EffectCleanup ELSE <<>>)
    ELSE IF ~m0 THEN EffectBody(o1)
    ELSE <<>>

EffectWrites_EveryRender(m0, o0, m1, o1) ==
    IF ~m1 THEN (IF m0 THEN EffectCleanup ELSE <<>>)
    ELSE IF ~m0 THEN EffectBody(o1)
    ELSE EffectCleanup \o EffectBody(o1)

EffectWrites(m0, o0, m1, o1) ==
    IF ~m1 THEN (IF m0 THEN EffectCleanup ELSE <<>>)
    ELSE IF ~m0 THEN EffectBody(o1)
    ELSE IF o0 # o1 THEN EffectCleanup \o EffectBody(o1)
    ELSE <<>>

ApplyWrites(cur, w) == IF w = <<>> THEN cur ELSE w[Len(w)]

\* Render with the new session state s, l and the new isOpen prop o, and
\* flush the modal's effect.
Commit(s, l, o) ==
    LET w == EffectWrites(GateMounted(session, loading), showSignOutConfirm,
                          GateMounted(s, l), o)
    IN  /\ scrollWrites' = w
        /\ bodyOverflow' = ApplyWrites(bodyOverflow, w)

\* ------------------------------------------------------------------ helpers
Pending == {c \in 1..Len(calls) : calls[c] = "pending"}

RECURSIVE CountPath(_, _)
CountPath(log, p) ==
    IF log = <<>> THEN 0
    ELSE (IF Head(log).path = p THEN 1 ELSE 0) + CountPath(Tail(log), p)

RECURSIVE CountHomeNavs(_, _)
CountHomeNavs(log, c) ==
    IF log = <<>> THEN 0
    ELSE (IF Head(log).path = HomePath /\ Head(log).call = c THEN 1 ELSE 0)
         + CountHomeNavs(Tail(log), c)

RECURSIVE Count(_, _)
Count(w, v) ==
    IF w = <<>> THEN 0
    ELSE (IF Head(w) = v THEN 1 ELSE 0) + Count(Tail(w), v)

\* --------------------------------------------------------------------- Init
Init ==
    /\ session \in Sessions
    /\ loading \in BOOLEAN
    /\ showSignOutConfirm = FALSE
    /\ isSigningOut = FALSE
    /\ calls = <<>>
    /\ navLog = <<>>
    /\ consoleErrors = 0
    /\ scrollWrites = EffectWrites(FALSE, FALSE, GateMounted(session, loading), FALSE)
    /\ bodyOverflow = ApplyWrites("", scrollWrites)
    /\ lastEvent = "mount"
    /\ emitted = <<>>

\* ------------------------------------------------- AuthButton: the handlers
\* onClose={() => setShowSignOutConfirm(false)}
OnClose ==
    /\ showSignOutConfirm' = FALSE
    /\ Commit(session, loading, FALSE)
    /\ UNCHANGED <<session, loading, isSigningOut, calls, navLog, consoleErrors>>

ConfirmSignOutStart_NoFlag ==
    /\ calls' = Append(calls, "pending")
    /\ Commit(session, loading, showSignOutConfirm)
    /\ UNCHANGED <<session, loading, showSignOutConfirm, isSigningOut, navLog,
                   consoleErrors>>

\* confirmSignOut up to its await: setIsSigningOut(true); authClient.signOut()
ConfirmSignOutStart ==
    /\ isSigningOut' = TRUE
    /\ calls' = Append(calls, "pending")
    /\ Commit(session, loading, showSignOutConfirm)
    /\ UNCHANGED <<session, loading, showSignOutConfirm, navLog, consoleErrors>>

\* An activation that invokes no callback changes nothing in the control.
NoCallback ==
    /\ Commit(session, loading, showSignOutConfirm)
    /\ UNCHANGED <<session, loading, showSignOutConfirm, isSigningOut, calls,
                   navLog, consoleErrors>>

Dispatch(cb) ==
    /\ emitted' = cb
    /\ IF cb = <<"onClose">> THEN OnClose
       ELSE IF cb = <<"onConfirm">> THEN ConfirmSignOutStart
       ELSE NoCallback

\* -------------------------------------------------------------- user events
RequestSignOut_Toggle ==
    /\ SignOutAffordance(session, loading)
    /\ lastEvent' = "request"
    /\ emitted' = <<>>
    /\ showSignOutConfirm' = ~showSignOutConfirm
    /\ Commit(session, loading, ~showSignOutConfirm)
    /\ UNCHANGED <<session, loading, isSigningOut, calls, navLog, consoleErrors>>

\* handleSignOutClick, bound to the Sign Out button
RequestSignOut ==
    /\ SignOutAffordance(session, loading)
    /\ lastEvent' = "request"
    /\ emitted' = <<>>
    /\ showSignOutConfirm' = TRUE
    /\ Commit(session, loading, TRUE)
    /\ UNCHANGED <<session, loading, isSigningOut, calls, navLog, consoleErrors>>

\* onClick={() => router.push('/sign-in')}, bound to the Sign In button
SignInClick ==
    /\ SignInAffordance(session, loading)
    /\ CountPath(navLog, SignInPath) < MaxSignInNavs
    /\ lastEvent' = "signIn"
    /\ emitted' = <<>>
    /\ navLog' = Append(navLog, [path |-> SignInPath, call |-> 0])
    /\ Commit(session, loading, showSignOutConfirm)
    /\ UNCHANGED <<session, loading, showSignOutConfirm, isSigningOut, calls,
                   consoleErrors>>

BackdropClick ==
    /\ GateMounted(session, loading)
    /\ lastEvent' = "backdrop"
    /\ Dispatch(BackdropCallbacks(showSignOutConfirm, isSigningOut))

CloseControlClick ==
    /\ GateMounted(session, loading)
    /\ lastEvent' = "closeControl"
    /\ Dispatch(CloseControlCallbacks(showSignOutConfirm, isSigningOut))

CancelClick ==
    /\ GateMounted(session, loading)
    /\ lastEvent' = "cancel"
    /\ Dispatch(CancelCallbacks(showSignOutConfirm, isSigningOut))

ConfirmClick ==
    /\ GateMounted(session, loading)
    /\ Len(calls) < MaxCalls
    /\ lastEvent' = "confirm"
    /\ Dispatch(ConfirmCallbacks(showSignOutConfirm, isSigningOut))

\* ----------------------------------------------- session provider changes
SessionChange(s, l) ==
    /\ <<s, l>> # <<session, loading>>
    /\ session' = s
    /\ loading' = l
    /\ lastEvent' = "session"
    /\ emitted' = <<>>
    /\ Commit(s, l, showSignOutConfirm)
    /\ UNCHANGED <<showSignOutConfirm, isSigningOut, calls, navLog, consoleErrors>>

\* --------------------------------- confirmSignOut after the awaited call
\* try { ...; setShowSignOutConfirm(false); router.push('/') }
\* finally { setIsSigningOut(false) }
SignOutResolves_NoHide(c) ==
    /\ c \in Pending
    /\ calls' = [calls EXCEPT ![c] = "resolved"]
    /\ navLog' = Append(navLog, [path |-> HomePath, call |-> c])
    /\ isSigningOut' = FALSE
    /\ lastEvent' = "resolved"
    /\ emitted' = <<>>
    /\ Commit(session, loading, showSignOutConfirm)
    /\ UNCHANGED <<session, loading, showSignOutConfirm, consoleErrors>>

SignOutResolves_NoFinally(c) ==
    /\ c \in Pending
    /\ calls' = [calls EXCEPT ![c] = "resolved"]
    /\ showSignOutConfirm' = FALSE
    /\ navLog' = Append(navLog, [path |-> HomePath, call |-> c])
    /\ lastEvent' = "resolved"
    /\ emitted' = <<>>
    /\ Commit(session, loading, FALSE)
    /\ UNCHANGED <<session, loading, isSigningOut, consoleErrors>>

SignOutResolves(c) ==
    /\ c \in Pending
    /\ calls' = [calls EXCEPT ![c] = "resolved"]
    /\ showSignOutConfirm' = FALSE
    /\ navLog' = Append(navLog, [path |-> HomePath, call |-> c])
    /\ isSigningOut' = FALSE
    /\ lastEvent' = "resolved"
    /\ emitted' = <<>>
    /\ Commit(session, loading, FALSE)
    /\ UNCHANGED <<session, loading, consoleErrors>>

\* catch (error) { console.error(...) } finally { setIsSigningOut(false) }
SignOutRejects_NoFinally(c) ==
    /\ c \in Pending
    /\ calls' = [calls EXCEPT ![c] = "rejected"]
    /\ consoleErrors' = consoleErrors + 1
    /\ lastEvent' = "rejected"
    /\ emitted' = <<>>
    /\ Commit(session, loading, showSignOutConfirm)
    /\ UNCHANGED <<session, loading, showSignOutConfirm, isSigningOut, navLog>>

SignOutRejects_AutoRetry(c) ==
    /\ c \in Pending
    /\ calls' = (IF Len(calls) < MaxCalls
                 THEN Append([calls EXCEPT ![c] = "rejected"], "pending")
                 ELSE [calls EXCEPT ![c] = "rejected"])
    /\ consoleErrors' = consoleErrors + 1
    /\ isSigningOut' = (Len(calls) < MaxCalls)
    /\ lastEvent' = "rejected"
    /\ emitted' = <<>>
    /\ Commit(session, loading, showSignOutConfirm)
    /\ UNCHANGED <<session, loading, showSignOutConfirm, navLog>>

SignOutRejects(c) ==
    /\ c \in Pending
    /\ calls' = [calls EXCEPT ![c] = "rejected"]
    /\ consoleErrors' = consoleErrors + 1
    /\ isSigningOut' = FALSE
    /\ lastEvent' = "rejected"
    /\ emitted' = <<>>
    /\ Commit(session, loading, showSignOutConfirm)
    /\ UNCHANGED <<session, loading, showSignOutConfirm, navLog>>

\* --------------------------------------------------------------------- Next
Next ==
    \/ RequestSignOut
    \/ SignInClick
    \/ BackdropClick
    \/ CloseControlClick
    \/ CancelClick
    \/ ConfirmClick
    \/ \E s \in Sessions, l \in BOOLEAN : SessionChange(s, l)
    \/ \E c \in 1..MaxCalls : SignOutResolves(c)
    \/ \E c \in 1..MaxCalls : SignOutRejects(c)

Spec == Init /\ [][Next]_vars

\* Every invoked authClient.signOut() eventually settles.
Settles == \E c \in 1..MaxCalls : SignOutResolves(c) \/ SignOutRejects(c)

LiveSpec == Init /\ [][Next]_vars /\ WF_vars(Settles)

TypeOK ==
    /\ session \in Sessions
    /\ loading \in BOOLEAN
    /\ showSignOutConfirm \in BOOLEAN
    /\ isSigningOut \in BOOLEAN
    /\ calls \in Seq(Statuses) /\ Len(calls) <= MaxCalls
    /\ consoleErrors \in 0..MaxCalls
    /\ bodyOverflow \in {"", "hidden", "unset"}
    /\ Len(navLog) <= MaxCalls + MaxSignInNavs

\* ================================================================== claims
GateOpen == GateMounted(session, loading) /\ showSignOutConfirm

CloseEvents == {"cancel", "closeControl", "backdrop"}

\* C1: at most one authClient.signOut() call is outstanding at any time, and
\* while the loading flag is set no step starts another call.
C1_SingleOutstanding ==
    [][ /\ Cardinality(Pending') <= 1
        /\ (isSigningOut => Len(calls') = Len(calls)) ]_vars

\* A confirm activation arrived while a call was outstanding and was ignored.
C1_Witness ==
    /\ isSigningOut
    /\ Cardinality(Pending) = 1
    /\ showSignOutConfirm
    /\ lastEvent = "confirm"
    /\ emitted = <<>>

\* C2: when a sign-out call resolves successfully, right after the completion
\* handler the gate is hidden, the loading flag is false and exactly one
\* navigation to '/' has been requested for that call.
C2_SuccessPath ==
    [][ \A c \in 1..Len(calls) :
          (calls[c] = "pending" /\ calls'[c] = "resolved")
          => /\ ~showSignOutConfirm'
             /\ ~isSigningOut'
             /\ CountHomeNavs(navLog', c) = 1 ]_vars

C2_Witness ==
    /\ lastEvent = "resolved"
    /\ ~showSignOutConfirm
    /\ ~isSigningOut
    /\ \E c \in 1..Len(calls) :
          calls[c] = "resolved" /\ CountHomeNavs(navLog, c) = 1

\* C3: when a sign-out call rejects, right after the completion handler the
\* loading flag is false, the gate is still open, no navigation has been
\* requested for that call and the confirm control is enabled again.
C3_FailurePath ==
    [][ \A c \in 1..Len(calls) :
          (calls[c] = "pending" /\ calls'[c] = "rejected")
          => /\ ~isSigningOut'
             /\ showSignOutConfirm'
             /\ CountHomeNavs(navLog', c) = 0
             /\ ConfirmCallbacks(showSignOutConfirm', isSigningOut')
                    = <<"onConfirm">> ]_vars

\* C4: given that every invoked call settles, whenever the loading flag
\* becomes true it eventually becomes false again.
C4_NoStuckLoading == isSigningOut ~> ~isSigningOut

\* The loading flag has been cleared on the failure path.
C4_Witness ==
    /\ lastEvent = "rejected"
    /\ ~isSigningOut
    /\ consoleErrors > 0

\* C5: while isLoading is true, a backdrop click and an activation of the
\* close control invoke no callback.
C5_NoEscapeWhileLoading ==
    [][ ( /\ GateMounted(session, loading)
          /\ isSigningOut
          /\ lastEvent' \in {"backdrop", "closeControl"} )
        => emitted' = <<>> ]_vars

\* C6: with isLoading true, activating the confirm or the cancel control
\* invokes neither onConfirm nor onClose.
C6_ButtonsDisabledWhileLoading ==
    [][ ( /\ GateMounted(session, loading)
          /\ isSigningOut
          /\ lastEvent' \in {"confirm", "cancel"} )
        => /\ emitted' = <<>>
           /\ showSignOutConfirm' = showSignOutConfirm
           /\ calls' = calls ]_vars

\* A cancel activation on the open dialog was ignored during a call.
C6_Witness ==
    /\ isSigningOut
    /\ GateOpen
    /\ lastEvent = "cancel"
    /\ emitted = <<>>

\* C7: in every reachable state, a set loading flag implies that the gate is
\* still open.
C7_InFlightImpliesOpen == isSigningOut => showSignOutConfirm

\* C8: background scroll is suppressed exactly when the gate is mounted and
\* open.
C8_ScrollLockInvariant == (bodyOverflow = "hidden") <=> GateOpen

\* The gate was torn down while open and scrolling was restored.
C8_Witness ==
    /\ ~GateMounted(session, loading)
    /\ showSignOutConfirm
    /\ lastEvent = "session"
    /\ scrollWrites = <<"unset">>
    /\ bodyOverflow = "unset"

\* C9 (as stated): every transition into isOpen == true performs exactly one
\* scroll-suppression activation and every transition out of it performs
\* exactly one release.
C9_ExactlyOneRelease ==
    [][ /\ (~GateOpen /\ GateOpen') => Count(scrollWrites', "hidden") = 1
        /\ (GateOpen /\ ~GateOpen') => Count(scrollWrites', "unset") = 1 ]_vars

\* C9 (amended): every transition into isOpen == true performs exactly one
\* activation; a transition out of it performs two releases when the gate
\* stays mounted (effect cleanup, then the effect's else branch) and one on
\* teardown, and leaves scrolling released.
C9_Pairing ==
    [][ /\ (~GateOpen /\ GateOpen') => Count(scrollWrites', "hidden") = 1
        /\ (GateOpen /\ ~GateOpen')
           => /\ Count(scrollWrites', "hidden") = 0
              /\ Count(scrollWrites', "unset")
                    = (IF GateMounted(session', loading') THEN 2 ELSE 1)
              /\ bodyOverflow' = "unset" ]_vars

\* The gate was closed while mounted: two release writes.
C9_Witness ==
    /\ GateMounted(session, loading)
    /\ ~showSignOutConfirm
    /\ lastEvent \in CloseEvents
    /\ emitted = <<"onClose">>
    /\ scrollWrites = <<"unset", "unset">>

\* C10: cancelling from ConfirmPending (cancel, close control or backdrop, no
\* call in flight) hides the gate, starts no call, requests no navigation
\* and leaves the session and the loading flag unchanged.
C10_CancelFrame ==
    [][ ( /\ GateOpen
          /\ ~isSigningOut
          /\ lastEvent' \in CloseEvents )
        => /\ ~showSignOutConfirm'
           /\ ~isSigningOut'
           /\ calls' = calls
           /\ navLog' = navLog
           /\ consoleErrors' = consoleErrors
           /\ session' = session
           /\ loading' = loading ]_vars

C10_Witness ==
    /\ lastEvent = "cancel"
    /\ emitted = <<"onClose">>
    /\ ~showSignOutConfirm
    /\ ~isSigningOut
    /\ calls = <<>>
    /\ navLog = <<>>

GateEvents == {"backdrop", "closeControl", "cancel", "confirm"}

\* C11: with no session present and the query resolved, only the sign-in
\* affordance is offered, activating it requests navigation to '/sign-in',
\* the gate is not shown, no gate event or sign-out request is handled, the
\* visibility flag is not raised and no sign-out call is started.
C11_NoSessionBranch ==
    [][ (session = "absent" /\ ~loading)
        => /\ SignInAffordance(session, loading)
           /\ ~SignOutAffordance(session, loading)
           /\ ~GateOpen
           /\ lastEvent' \notin (GateEvents \cup {"request"})
           /\ (showSignOutConfirm' => showSignOutConfirm)
           /\ Len(calls') = Len(calls)
           /\ (lastEvent' = "signIn"
               => navLog' = Append(navLog, [path |-> SignInPath, call |-> 0]))
       ]_vars

\* The sign-in affordance was activated with no session present.
C11_Witness ==
    /\ session = "absent"
    /\ ~loading
    /\ lastEvent = "signIn"
    /\ navLog = <<[path |-> SignInPath, call |-> 0]>>
    /\ calls = <<>>

\* C12: while the session query is pending neither affordance is interactive
\* (no sign-in navigation, no gate opening); in every state at most one
\* affordance is interactive and, once resolved, it is the one matching the
\* session.
C12_PendingPlaceholder ==
    [][ /\ loading
           => /\ lastEvent' \notin {"request", "signIn"}
              /\ CountPath(navLog', SignInPath) = CountPath(navLog, SignInPath)
              /\ (showSignOutConfirm' => showSignOutConfirm)
        /\ ~loading'
           => /\ SignOutAffordance(session', loading') <=> (session' = "present")
              /\ SignInAffordance(session', loading') <=> (session' = "absent")
        /\ loading'
           => /\ ~SignOutAffordance(session', loading')
              /\ ~SignInAffordance(session', loading') ]_vars

\* The query has just resolved to a present session; nothing was triggered
\* before.
C12_Witness ==
    /\ ~loading
    /\ session = "present"
    /\ lastEvent = "session"
    /\ SignOutAffordance(session, loading)
    /\ navLog = <<>>
    /\ calls = <<>>
    /\ ~showSignOutConfirm

ControlState ==
    [show |-> showSignOutConfirm, signing |-> isSigningOut,
     overflow |-> bodyOverflow, calls |-> calls, nav |-> navLog,
     errors |-> consoleErrors, writes |-> <<>>]

\* onClose applied to a control state st while the gate is mounted (m):
\* setShowSignOutConfirm(false), then the modal's effect for the new isOpen.
CloseEffect(st, m) ==
    LET w == EffectWrites(m, st.show, m, FALSE)
    IN  [st EXCEPT !.show = FALSE,
                   !.overflow = ApplyWrites(st.overflow, w),
                   !.writes = w]

\* C14: close is idempotent: every step that invokes onClose is CloseEffect;
\* on an already-closed gate CloseEffect changes nothing and performs no
\* scroll write; and closing twice gives the state of closing once with no
\* further write.
C14_CloseIdempotent ==
    /\ [][ emitted' = <<"onClose">>
           => [ControlState EXCEPT !.writes = scrollWrites]'
                 = CloseEffect(ControlState, GateMounted(session, loading)) ]_vars
    /\ [](\A m \in BOOLEAN :
            LET once == CloseEffect(ControlState, m)
            IN  /\ (~showSignOutConfirm => once = ControlState)
                /\ CloseEffect(once, m) = [once EXCEPT !.writes = <<>>])

\* The gate has just been closed with a call outstanding; closing the now
\* closed gate again would change nothing.
C14_Witness ==
    /\ GateMounted(session, loading)
    /\ ~showSignOutConfirm
    /\ isSigningOut
    /\ emitted = <<"onClose">>
    /\ scrollWrites = <<"unset", "unset">>
    /\ CloseEffect(ControlState, TRUE) = ControlState

\* C15: authClient.signOut() is invoked exactly once in every step in which
\* the gate invokes onConfirm and in no other step (in particular not after
\* a rejection), and the step that invokes it leaves the loading flag set
\* with the new call pending.
C15_OncePerConfirm ==
    [][ /\ Len(calls') = Len(calls) + (IF emitted' = <<"onConfirm">> THEN 1 ELSE 0)
        /\ emitted' = <<"onConfirm">> => lastEvent' = "confirm"
        /\ Len(calls') > Len(calls)
           => /\ isSigningOut'
              /\ calls'[Len(calls')] = "pending"
              /\ SubSeq(calls', 1, Len(calls)) = calls ]_vars

\* The user confirmed again after a rejected call: two confirms, two calls.
C15_Witness ==
    /\ lastEvent = "confirm"
    /\ emitted = <<"onConfirm">>
    /\ calls = <<"rejected", "pending">>
    /\ consoleErrors = 1
    /\ isSigningOut

\* A session is present and resolved and no call is outstanding (and the
\* explored number of calls is not exhausted).
ReEnterable ==
    /\ GateMounted(session, loading)
    /\ Pending = {}
    /\ Len(calls) < MaxCalls

\* C16: a successful sign-out leaves the control in Idle, and from every
\* reachable state with a session present and resolved and no call
\* outstanding a sign-out request is possible and leads to the open gate,
\* where a confirm is possible and starts a new sign-out call.
C16_ReEnterable ==
    /\ [][ /\ lastEvent' = "resolved" => (~showSignOutConfirm' /\ ~isSigningOut')
           /\ (ReEnterable /\ lastEvent' = "request")
              => (ReEnterable' /\ GateOpen') ]_vars
    /\ [](ReEnterable => ENABLED (RequestSignOut /\ showSignOutConfirm'))
    /\ []((ReEnterable /\ GateOpen)
            => ENABLED ( /\ ConfirmClick
                         /\ emitted' = <<"onConfirm">>
                         /\ Len(calls') = Len(calls) + 1
                         /\ isSigningOut' ))

\* After a successful sign-out the user requested and confirmed again.
C16_Witness ==
    /\ calls = <<"resolved", "pending">>
    /\ lastEvent = "confirm"
    /\ emitted = <<"onConfirm">>
    /\ GateOpen
    /\ isSigningOut

\* C17: a sign-out request while the control is already in ConfirmPending
\* leaves the state as it was: gate open, loading flag unchanged, no call
\* started, no navigation and no scroll write.
C17_SecondRequestNoOp ==
    [][ ( /\ GateOpen
          /\ ~isSigningOut
          /\ lastEvent' = "request" )
        => /\ GateOpen'
           /\ scrollWrites' = <<>>
           /\ emitted' = <<>>
           /\ UNCHANGED <<session, loading, showSignOutConfirm, isSigningOut,
                          calls, navLog, consoleErrors, bodyOverflow>> ]_vars

\* A request was handled with the gate already open: no scroll write.
C17_Witness ==
    /\ GateOpen
    /\ ~isSigningOut
    /\ lastEvent = "request"
    /\ scrollWrites = <<>>
    /\ bodyOverflow = "hidden"

\* C18: the gate becomes visible only in a step that handles a user
\* sign-out request; a change of session-provider state alone never makes
\* it appear.
C18_OpenOnlyByRequest ==
    [][ (~GateOpen /\ GateOpen') => lastEvent' = "request" ]_vars

\* C19: in every reachable state the loading flag is true if and only if a
\* sign-out call is outstanding.
C19_FlagIffPending == isSigningOut <=> (Pending # {})

\* A second call is outstanding with the flag set, after the first settled.
C19_Witness ==
    /\ isSigningOut
    /\ Len(calls) = 2
    /\ Pending = {2}
    /\ lastEvent # "confirm"

====
